---- MODULE Spec2Model ----
(***************************************************************************)
(* ASL translator: the inference endpoint (backend/app.py), the offline    *)
(* dataset builder (backend/extract_landmarks.py) and the offline trainer  *)
(* (backend/train_model.py).                                               *)
(*                                                                         *)
(* Probabilities are counted in units of 1/ProbDen, so that the threshold  *)
(* 0.3 is the exact value ThresholdNum/ThresholdDen.  An uploaded frame is *)
(* its format together with what it depicts: the sequence of hands the     *)
(* detector can find in it, in the detector's order.  A hand is the 21     *)
(* landmarks the detector reports for it.                                  *)
(***************************************************************************)
EXTENDS Integers, Sequences, FiniteSets, TLC

VARIABLES
    model,         \* app.py: the classifier loaded at startup
    hands,         \* app.py: the shared detector instance
    argsort_ties,  \* how this numpy build orders equal elements in argsort
    request,       \* the last request served
    response,      \* its response: [status, body]
    calls,         \* the library calls the last request made, in order
    landmarks,     \* the DataFrame extract_landmarks built for it, or None
    first,         \* history: the first POST /predict served, its response, and the
                   \* model and detector it found
    b_pc,          \* extract_landmarks.py: position in the script
    listing,       \* the dataset directory: entries in os.listdir order
    b_label,       \* index of the entry of the outer loop
    b_img,         \* index of the file of the inner loop
    csv,           \* the rows written to OUTPUT_FILE so far
    b_hands,       \* extract_landmarks.py: the detector instance
    t_pc,          \* train_model.py: position in the script
    df,            \* the data frame: the label column, one entry per row
    class_counts,  \* df["label"].value_counts() as computed at line 16
    rare_classes,  \* the labels dropped
    cv_folds       \* the fold count given to cross_val_score

vars == <<model, hands, argsort_ties, request, response, calls, landmarks, first,
          b_pc, listing, b_label, b_img, csv, b_hands,
          t_pc, df, class_counts, rare_classes, cv_folds>>

serverVars == <<model, hands, argsort_ties, request, response, calls, landmarks, first>>
builderVars == <<b_pc, listing, b_label, b_img, csv, b_hands>>
trainerVars == <<t_pc, df, class_counts, rare_classes, cv_folds>>

-----------------------------------------------------------------------------
(* Bounds and program constants *)

MaxClasses == 5
MaxFiles == 2
MaxCount == 11

NumLandmarks == 21

ThresholdNum == 3
ThresholdDen == 10

MIN_SAMPLES_PER_CLASS == 10
DefaultFolds == 5
ProbDen == ThresholdDen

None == [none |-> TRUE]
Null == "null"

ClassNames == <<"A", "B", "C", "D", "E", "F">>
HandIds == {1, 2}

-----------------------------------------------------------------------------
(* Sequences *)

Reverse(s) == [i \in 1..Len(s) |-> s[Len(s) + 1 - i]]

LastN(s, n) == IF Len(s) <= n THEN s ELSE SubSeq(s, Len(s) - n + 1, Len(s))

Rotate(s, k) == [i \in 1..Len(s) |-> s[((i - 1 + k) % Len(s)) + 1]]

RECURSIVE SumSeq(_)
SumSeq(s) == IF s = <<>> THEN 0 ELSE Head(s) + SumSeq(Tail(s))

-----------------------------------------------------------------------------
(* The detector's output for a hand: 21 landmarks, each with x and y. *)

HandLandmarks(h) ==
    [i \in 1..NumLandmarks |-> [x |-> (h * i) % 4, y |-> (h + i) % 3]]

-----------------------------------------------------------------------------
(* backend/app.py *)

\* The detector misconfigured for video: it keeps the hand it found in the
\* previous frame and follows it.
hands_video == [static_image_mode |-> FALSE, max_num_hands |-> 1, tracked |-> <<>>]

\* mp_hands.Hands(static_image_mode=True, max_num_hands=1, ...)
hands_startup == [static_image_mode |-> TRUE, max_num_hands |-> 1, tracked |-> <<>>]

\* A detector that keeps the last hands it finds in place of the first.
process_last(h, img) ==
    LET n == IF Len(img.hands) < h.max_num_hands THEN Len(img.hands) ELSE h.max_num_hands
        found == SubSeq(img.hands, Len(img.hands) - n + 1, Len(img.hands))
    IN  [multi_hand_landmarks |-> [k \in 1..Len(found) |-> HandLandmarks(found[k])],
         hands |-> h]

\* hands.process(img_rgb): the hands found, at most max_num_hands of them, and
\* the detector afterwards.  With static_image_mode every image is detected
\* afresh; without it the detector follows the hands of the previous image
\* while they stay in view.
process(h, img) ==
    LET n == IF Len(img.hands) < h.max_num_hands THEN Len(img.hands) ELSE h.max_num_hands
        detected == SubSeq(img.hands, 1, n)
        followed == SelectSeq(h.tracked, LAMBDA t : \E k \in 1..Len(img.hands) : img.hands[k] = t)
        found == IF ~h.static_image_mode /\ followed # <<>> THEN followed ELSE detected
    IN  [multi_hand_landmarks |-> [k \in 1..Len(found) |-> HandLandmarks(found[k])],
         hands |-> IF h.static_image_mode THEN h ELSE [h EXCEPT !.tracked = found]]

\* A decoder that hands back an empty picture for bytes it cannot decode.
imdecode_lenient(bytes) ==
    IF bytes.format \in {"jpeg", "png"} THEN [hands |-> bytes.content] ELSE [hands |-> <<>>]

\* cv2.imdecode(img_array, cv2.IMREAD_COLOR): the picture, or None when the
\* bytes are no image.
imdecode(bytes) ==
    IF bytes.format \in {"jpeg", "png"} THEN [hands |-> bytes.content] ELSE None

\* coords with the two coordinates of each landmark exchanged.
RECURSIVE coords_yx(_)
coords_yx(landmark) ==
    IF landmark = <<>> THEN <<>>
    ELSE <<Head(landmark).y, Head(landmark).x>> \o coords_yx(Tail(landmark))

\* for lm in hand_landmarks.landmark: coords.extend([lm.x, lm.y])
RECURSIVE coords(_)
coords(landmark) ==
    IF landmark = <<>> THEN <<>>
    ELSE <<Head(landmark).x, Head(landmark).y>> \o coords(Tail(landmark))

\* for i in range(21): feature_names.extend([f"x{i}", f"y{i}"]), from i on
RECURSIVE feature_names_from(_)
feature_names_from(i) ==
    IF i >= NumLandmarks THEN <<>>
    ELSE << <<"x", i>>, <<"y", i>> >> \o feature_names_from(i + 1)

feature_names == feature_names_from(0)

\* extract_landmarks(img_bgr): the one-row DataFrame or None, with the
\* detector afterwards.
extract_landmarks(h, img_bgr) ==
    LET result == process(h, img_bgr)
    IN  IF result.multi_hand_landmarks = <<>>
        THEN [df |-> None, hands |-> result.hands]
        ELSE [df |-> [columns |-> feature_names,
                      values |-> coords(result.multi_hand_landmarks[1])],
              hands |-> result.hands]

\* model.predict_proba(landmarks)[0]: the probability vector of the row, or
\* the exception raised.
predict_proba(m, frame) ==
    IF m.broken THEN [raised |-> TRUE, e |-> m.error]
    ELSE [raised |-> FALSE, probs |-> m.proba[frame.values]]

\* np.argmax(probs): the first index holding the maximum.
np_argmax(probs) ==
    CHOOSE i \in 1..Len(probs) :
        /\ \A j \in 1..Len(probs) : probs[j] <= probs[i]
        /\ \A j \in 1..(i - 1) : probs[j] < probs[i]

\* The index argsort places next among `rest`: one holding the least value;
\* among equal values the build decides (the lowest index when the sort is
\* stable, the highest when it is not).
NextInOrder(probs, rest, ties) ==
    LET least == {i \in rest : \A j \in rest : probs[i] <= probs[j]}
    IN  IF ties = "stable"
        THEN CHOOSE i \in least : \A j \in least : i <= j
        ELSE CHOOSE i \in least : \A j \in least : i >= j

RECURSIVE argsort_rest(_, _, _)
argsort_rest(probs, rest, ties) ==
    IF rest = {} THEN <<>>
    ELSE LET i == NextInOrder(probs, rest, ties)
         IN  <<i>> \o argsort_rest(probs, rest \ {i}, ties)

\* np.argsort(probs): the indices in ascending order of probability.
np_argsort(probs, ties) == argsort_rest(probs, 1..Len(probs), ties)

\* The three best without the reversal: ascending.
top_predictions_ascending(m, probs, ties) ==
    LET idx == LastN(np_argsort(probs, ties), 3)
    IN  [k \in 1..Len(idx) |-> [label |-> m.classes_[idx[k]], confidence |-> probs[idx[k]]]]

\* [{"label": model.classes_[i], "confidence": float(probs[i])}
\*  for i in np.argsort(probs)[-3:][::-1]]
top_predictions(m, probs, ties) ==
    LET idx == Reverse(LastN(np_argsort(probs, ties), 3))
    IN  [k \in 1..Len(idx) |-> [label |-> m.classes_[idx[k]], confidence |-> probs[idx[k]]]]

\* The comparison with <= in place of <.
below_threshold_inclusive(best_prob) == best_prob * ThresholdDen <= ThresholdNum * ProbDen

\* best_prob < confidence_threshold, with confidence_threshold = 0.3
below_threshold(best_prob) == best_prob * ThresholdDen < ThresholdNum * ProbDen

\* The handler answering 200 to an exception.
error_response_ok(e) == [status |-> 200, body |-> [error |-> e]]

\* except Exception as e: return jsonify({"error": str(e)}), 500
error_response(e) == [status |-> 500, body |-> [error |-> e]]

\* POST /predict, as a function of the uploaded form, the loaded model and
\* the detector: the response, the library calls made, the detector afterwards
\* and the DataFrame built.
predict(files, m, h, ties) ==
    IF "frame" \notin DOMAIN files
    THEN [status |-> 400, body |-> [error |-> "missing frame"],
          calls |-> <<>>, hands |-> h, landmarks |-> None]
    ELSE
    LET img == imdecode(files.frame)
    IN  IF img = None
        THEN [status |-> 400, body |-> [error |-> "invalid image"],
              calls |-> <<"cv2.imdecode">>, hands |-> h, landmarks |-> None]
        ELSE
        LET ex == extract_landmarks(h, img)
        IN  IF ex.df = None
            THEN [status |-> 200,
                  body |-> [prediction |-> Null, message |-> [text |-> "no hand detected"]],
                  calls |-> <<"cv2.imdecode", "hands.process">>,
                  hands |-> ex.hands, landmarks |-> None]
            ELSE
            LET r == predict_proba(m, ex.df)
                made == <<"cv2.imdecode", "hands.process", "model.predict_proba">>
            IN  IF r.raised
                THEN [status |-> error_response(r.e).status,
                      body |-> error_response(r.e).body,
                      calls |-> made, hands |-> ex.hands, landmarks |-> ex.df]
                ELSE
                LET probs == r.probs
                    best_idx == np_argmax(probs)
                    best_label == m.classes_[best_idx]
                    best_prob == probs[best_idx]
                IN  IF below_threshold(best_prob)
                    THEN [status |-> 200,
                          body |-> [prediction |-> Null,
                                    message |-> [text |-> "low confidence", value |-> best_prob],
                                    top_predictions |-> top_predictions(m, probs, ties)],
                          calls |-> made, hands |-> ex.hands, landmarks |-> ex.df]
                    ELSE [status |-> 200,
                          body |-> [prediction |-> best_label,
                                    confidence |-> best_prob,
                                    top_predictions |-> top_predictions(m, probs, ties)],
                          calls |-> made, hands |-> ex.hands, landmarks |-> ex.df]

-----------------------------------------------------------------------------
(* What can be uploaded, and the models that can be loaded *)

\* The pictures: no hand, one hand, or two different hands in either order.
Scenes ==
    {<<>>} \cup {<<a>> : a \in HandIds}
           \cup {<<a, b>> : <<a, b>> \in {ab \in HandIds \X HandIds : ab[1] < ab[2]}}

Bytes == {[format |-> "junk", content |-> <<>>]}
         \cup {[format |-> "jpeg", content |-> c] : c \in Scenes}

\* A form without the field "frame", or with it.
Uploads == {[image |-> [format |-> "jpeg", content |-> <<>>]]}
           \cup {[frame |-> b] : b \in Bytes}

ProbVectors(n) == {p \in [1..n -> 0..ProbDen] : SumSeq(p) = ProbDen}

FeatureRows == {coords(HandLandmarks(a)) : a \in HandIds}

HandOfRow(v) == CHOOSE a \in HandIds : coords(HandLandmarks(a)) = v

\* A classifier over n classes: the first hand scores p, every further hand
\* the same scores moved on by one class.
Classifier(n, p, broken) ==
    [classes_ |-> SubSeq(ClassNames, 1, n),
     proba |-> [v \in FeatureRows |-> Rotate(p, HandOfRow(v) - 1)],
     broken |-> broken,
     error |-> "X has 42 features, but the classifier is expecting 63"]

Models ==
    UNION {{Classifier(n, p, FALSE) : p \in ProbVectors(n)}
           \cup {Classifier(n, [i \in 1..n |-> IF i = 1 THEN ProbDen ELSE 0], TRUE)}
           : n \in 1..MaxClasses}

-----------------------------------------------------------------------------
(* The inference service *)

BuilderIdle ==
    /\ b_pc = "off" /\ listing = <<>> /\ b_label = 0 /\ b_img = 0
    /\ csv = <<>> /\ b_hands = None

TrainerIdle ==
    /\ t_pc = "off" /\ df = <<>> /\ class_counts = <<>>
    /\ rare_classes = {} /\ cv_folds = 0

ServerIdle ==
    /\ model = None /\ hands = None /\ argsort_ties = "stable"
    /\ request = None /\ response = None /\ calls = <<>>
    /\ landmarks = None /\ first = None

\* model = joblib.load(MODEL_PATH); hands = mp_hands.Hands(...)
Init ==
    /\ model \in Models
    /\ hands = hands_startup
    /\ argsort_ties \in {"stable", "unstable"}
    /\ request = None
    /\ response = None
    /\ calls = <<>>
    /\ landmarks = None
    /\ first = None
    /\ BuilderIdle
    /\ TrainerIdle

PostPredict ==
    \E files \in Uploads :
      \E out \in {predict(files, model, hands, argsort_ties)} :
        LET req == [route |-> "/predict", files |-> files]
            res == [status |-> out.status, body |-> out.body]
        IN  /\ request' = req
            /\ response' = res
            /\ calls' = out.calls
            /\ hands' = out.hands
            /\ landmarks' = out.landmarks
            /\ first' = IF first = None
                        THEN [request |-> req, response |-> res,
                              model |-> model, hands |-> hands]
                        ELSE first
            /\ UNCHANGED <<model, argsort_ties>>
            /\ UNCHANGED builderVars
            /\ UNCHANGED trainerVars

\* GET /health
GetHealth ==
    /\ request' = [route |-> "/health"]
    /\ response' = [status |-> 200, body |-> [status |-> "ok"]]
    /\ calls' = <<>>
    /\ landmarks' = None
    /\ UNCHANGED <<model, hands, argsort_ties, first>>
    /\ UNCHANGED builderVars
    /\ UNCHANGED trainerVars

Next == PostPredict \/ GetHealth

Spec == Init /\ [][Next]_vars

-----------------------------------------------------------------------------
(* backend/extract_landmarks.py *)

\* mp_hands.Hands(static_image_mode=True, max_num_hands=1)
b_hands_startup == [static_image_mode |-> TRUE, max_num_hands |-> 1, tracked |-> <<>>]

\* for i in range(21): header += [f"x{i}", f"y{i}"], from i on
RECURSIVE header_from(_)
header_from(i) ==
    IF i >= NumLandmarks THEN <<>>
    ELSE << <<"x", i>>, <<"y", i>> >> \o header_from(i + 1)

\* header.append("label")
header == header_from(0) \o << <<"label">> >>

\* cv2.imread(img_path): the picture, or None when the file is no image.
imread(file) ==
    IF file.format \in {"jpeg", "png"} THEN [hands |-> file.content] ELSE None

\* for lm in hand_landmarks.landmark: row.extend([lm.x, lm.y])
RECURSIVE row_features(_)
row_features(landmark) ==
    IF landmark = <<>> THEN <<>>
    ELSE <<Head(landmark).x, Head(landmark).y>> \o row_features(Tail(landmark))

\* The loop body without the test of result.multi_hand_landmarks: an image
\* with no hand leaves a row that holds the label alone.
image_rows_unchecked(h, file, label) ==
    LET img == imread(file)
    IN  IF img = None THEN <<>>
        ELSE LET result == process(h, img)
             IN  IF result.multi_hand_landmarks # <<>>
                 THEN << row_features(result.multi_hand_landmarks[1]) \o <<label>> >>
                 ELSE << <<label>> >>

\* The body of the inner loop for one file: the rows it writes (none or one).
image_rows(h, file, label) ==
    LET img == imread(file)
    IN  IF img = None THEN <<>>
        ELSE LET result == process(h, img)
             IN  IF result.multi_hand_landmarks # <<>>
                 THEN << row_features(result.multi_hand_landmarks[1]) \o <<label>> >>
                 ELSE <<>>

\* The files a label directory can hold: up to MaxFiles files of different
\* content, each unreadable, a picture without a hand or a picture of a hand.
FileContents == {[format |-> "junk", content |-> <<>>]}
                \cup {[format |-> "jpeg", content |-> c] : c \in {<<>>} \cup {<<a>> : a \in HandIds}}

RECURSIVE DistinctSeqs(_, _)
DistinctSeqs(S, n) ==
    IF n = 0 THEN {<<>>}
    ELSE LET shorter == DistinctSeqs(S, n - 1)
         IN  shorter \cup {Append(q, x) : <<q, x>> \in
                              {qx \in shorter \X S :
                                  /\ Len(qx[1]) = n - 1
                                  /\ \A k \in 1..Len(qx[1]) : qx[1][k] # qx[2]}}

EntryNames == {"A", "B", "README.md"}

\* The dataset directory: label directories and plain files, in any order.
Listings ==
    {[k \in 1..Len(names) |->
         IF names[k] = "README.md"
         THEN [name |-> names[k], isdir |-> FALSE, files |-> <<>>]
         ELSE [name |-> names[k], isdir |-> TRUE, files |-> fs[names[k]]]]
     : <<names, fs>> \in DistinctSeqs(EntryNames, Cardinality(EntryNames))
                         \X [{"A", "B"} -> DistinctSeqs(FileContents, MaxFiles)]}

InitBuilder ==
    /\ b_pc = "open"
    /\ listing \in Listings
    /\ b_label = 0
    /\ b_img = 0
    /\ csv = <<>>
    /\ b_hands = b_hands_startup
    /\ ServerIdle
    /\ TrainerIdle

\* with open(OUTPUT_FILE, "w"): writer.writerow(header)
WriteHeader ==
    /\ b_pc = "open"
    /\ csv' = <<header>>
    /\ b_pc' = "labels"
    /\ UNCHANGED <<listing, b_label, b_img, b_hands>>
    /\ UNCHANGED serverVars
    /\ UNCHANGED trainerVars

\* for label in os.listdir(DATASET_PATH): if not os.path.isdir(label_path): continue
SkipEntry ==
    /\ b_pc = "labels"
    /\ b_label < Len(listing)
    /\ ~listing[b_label + 1].isdir
    /\ b_label' = b_label + 1
    /\ UNCHANGED <<b_pc, listing, b_img, csv, b_hands>>
    /\ UNCHANGED serverVars
    /\ UNCHANGED trainerVars

\* a directory: print(f"Processing {label}...") and start on its files
EnterLabel ==
    /\ b_pc = "labels"
    /\ b_label < Len(listing)
    /\ listing[b_label + 1].isdir
    /\ b_label' = b_label + 1
    /\ b_img' = 0
    /\ b_pc' = "images"
    /\ UNCHANGED <<listing, csv, b_hands>>
    /\ UNCHANGED serverVars
    /\ UNCHANGED trainerVars

\* for img_name in os.listdir(label_path): one file
ProcessImage ==
    /\ b_pc = "images"
    /\ b_img < Len(listing[b_label].files)
    /\ b_img' = b_img + 1
    /\ csv' = csv \o image_rows(b_hands, listing[b_label].files[b_img + 1],
                                listing[b_label].name)
    /\ UNCHANGED <<b_pc, listing, b_label, b_hands>>
    /\ UNCHANGED serverVars
    /\ UNCHANGED trainerVars

\* the inner loop is exhausted
EndLabel ==
    /\ b_pc = "images"
    /\ b_img = Len(listing[b_label].files)
    /\ b_pc' = "labels"
    /\ UNCHANGED <<listing, b_label, b_img, csv, b_hands>>
    /\ UNCHANGED serverVars
    /\ UNCHANGED trainerVars

\* the outer loop is exhausted: the file is closed, hands.close()
Close ==
    /\ b_pc = "labels"
    /\ b_label = Len(listing)
    /\ b_pc' = "done"
    /\ b_hands' = None
    /\ UNCHANGED <<listing, b_label, b_img, csv>>
    /\ UNCHANGED serverVars
    /\ UNCHANGED trainerVars

NextBuilder == WriteHeader \/ SkipEntry \/ EnterLabel \/ ProcessImage \/ EndLabel \/ Close

SpecBuilder == InitBuilder /\ [][NextBuilder]_vars

-----------------------------------------------------------------------------
(* backend/train_model.py *)

TrainLabels == <<"A", "B", "nothing">>

\* n rows labelled l
RECURSIVE Repeat(_, _)
Repeat(l, n) == IF n = 0 THEN <<>> ELSE <<l>> \o Repeat(l, n - 1)

\* The label column of a CSV holding count[k] rows of the k-th label.
RECURSIVE LabelColumn(_, _)
LabelColumn(count, k) ==
    IF k > Len(TrainLabels) THEN <<>>
    ELSE Repeat(TrainLabels[k], count[k]) \o LabelColumn(count, k + 1)

\* df["label"].value_counts(): the labels that occur, each with its number of rows
value_counts(column) ==
    LET present == {column[i] : i \in 1..Len(column)}
    IN  [l \in present |-> Cardinality({i \in 1..Len(column) : column[i] = l})]

\* class_counts.min()
counts_min(counts) ==
    CHOOSE n \in {counts[l] : l \in DOMAIN counts} :
        \A l \in DOMAIN counts : n <= counts[l]

\* class_counts[class_counts < MIN_SAMPLES_PER_CLASS].index.tolist()
rare(counts) == {l \in DOMAIN counts : counts[l] < MIN_SAMPLES_PER_CLASS}

\* df[~df["label"].isin(rare_classes)].reset_index(drop=True)
drop_rare(column, dropped) == SelectSeq(column, LAMBDA l : l \notin dropped)

\* cv_folds = 5; if class_counts.min() < cv_folds: cv_folds = max(2, int(class_counts.min()))
folds(counts) ==
    IF counts_min(counts) < DefaultFolds
    THEN (IF counts_min(counts) > 2 THEN counts_min(counts) ELSE 2)
    ELSE DefaultFolds

InitTrainer ==
    /\ t_pc = "loaded"
    /\ df \in {LabelColumn(count, 1) : count \in [1..Len(TrainLabels) -> 0..MaxCount]}
    /\ class_counts = <<>>
    /\ rare_classes = {}
    /\ cv_folds = 0
    /\ ServerIdle
    /\ BuilderIdle

\* class_counts = df["label"].value_counts(); rare_classes = ...
CountClasses ==
    /\ t_pc = "loaded"
    /\ class_counts' = value_counts(df)
    /\ rare_classes' = rare(value_counts(df))
    /\ t_pc' = "counted"
    /\ UNCHANGED <<df, cv_folds>>
    /\ UNCHANGED serverVars
    /\ UNCHANGED builderVars

\* if rare_classes: df = df[~df["label"].isin(rare_classes)]
DropRare ==
    /\ t_pc = "counted"
    /\ df' = IF rare_classes # {} THEN drop_rare(df, rare_classes) ELSE df
    /\ t_pc' = "filtered"
    /\ UNCHANGED <<class_counts, rare_classes, cv_folds>>
    /\ UNCHANGED serverVars
    /\ UNCHANGED builderVars

\* train_test_split(X, y, test_size=0.2, stratify=y) and model.fit: there
\* is nothing to split when no row is left, and the script ends there.
SplitAndFit ==
    /\ t_pc = "filtered"
    /\ t_pc' = IF df = <<>> THEN "aborted" ELSE "fitted"
    /\ UNCHANGED <<df, class_counts, rare_classes, cv_folds>>
    /\ UNCHANGED serverVars
    /\ UNCHANGED builderVars

\* cv_folds = 5 ... cross_val_score(model, X_train, y_train, cv=cv_folds)
CrossValidate ==
    /\ t_pc = "fitted"
    /\ cv_folds' = folds(class_counts)
    /\ t_pc' = "validated"
    /\ UNCHANGED <<df, class_counts, rare_classes>>
    /\ UNCHANGED serverVars
    /\ UNCHANGED builderVars

\* the evaluation and joblib.dump(model, "asl_model.pkl")
Save ==
    /\ t_pc = "validated"
    /\ t_pc' = "saved"
    /\ UNCHANGED <<df, class_counts, rare_classes, cv_folds>>
    /\ UNCHANGED serverVars
    /\ UNCHANGED builderVars

NextTrainer == CountClasses \/ DropRare \/ SplitAndFit \/ CrossValidate \/ Save

SpecTrainer == InitTrainer /\ [][NextTrainer]_vars

-----------------------------------------------------------------------------
(* The last request, as the claims speak of it *)

IsPredict == request # None /\ request.route = "/predict"

HasFrame == IsPredict /\ "frame" \in DOMAIN request.files

\* the uploaded bytes are an image
Decodable == HasFrame /\ request.files.frame.format # "junk"

\* the hands the detector can find in the uploaded image
Scene == request.files.frame.content

HandDetected == Decodable /\ Scene # <<>>

\* the classifier returned a probability vector for the uploaded hand
Classified == HandDetected /\ ~model.broken

\* x0,y0,...,x20,y20 of a hand, position by position
FeaturesOf(a) ==
    [j \in 1..(2 * NumLandmarks) |->
        IF j % 2 = 1 THEN HandLandmarks(a)[(j + 1) \div 2].x
        ELSE HandLandmarks(a)[j \div 2].y]

\* the probabilities the loaded model gives the first hand of the image
Scores == model.proba[FeaturesOf(Scene[1])]

AtOrAbove(p) == p * ThresholdDen >= ThresholdNum * ProbDen

Body == response.body

-----------------------------------------------------------------------------
(* Claims about the inference service, checked under Spec *)

\* C1: when a hand was detected and the classifier returned a probability
\* vector, the prediction is non-null if and only if the highest class
\* probability is at or above 0.3 (0.3 itself included), whichever class wins.
C1_ThresholdCutoff ==
    Classified =>
        /\ response.status = 200
        /\ "prediction" \in DOMAIN Body
        /\ (Body.prediction # Null) <=> (\E i \in 1..Len(Scores) : AtOrAbove(Scores[i]))

\* C1 witness: the winner scores exactly 0.3, is not the first class, and is
\* surfaced.
C1_Witness ==
    /\ Classified
    /\ \A i \in 1..Len(Scores) : Scores[i] * ThresholdDen <= ThresholdNum * ProbDen
    /\ \E i \in 1..Len(Scores) : Scores[i] * ThresholdDen = ThresholdNum * ProbDen
    /\ Body.prediction # Null
    /\ Body.prediction # model.classes_[1]

C3_TopThree ==
    (Classified /\ Len(model.classes_) >= 3) =>
        /\ "top_predictions" \in DOMAIN Body
        /\ Len(Body.top_predictions) = 3
        /\ \A k \in 1..2 :
              Body.top_predictions[k].confidence >= Body.top_predictions[k + 1].confidence

\* C3 witness: a low-confidence response over more than 3 classes, with its
\* three candidates.
C3_Witness ==
    /\ Classified
    /\ Len(model.classes_) > 3
    /\ Body.prediction = Null
    /\ "message" \in DOMAIN Body
    /\ Body.message.text = "low confidence"
    /\ Len(Body.top_predictions) = 3

\* C4 as stated: for a decodable image with zero hands or more than one hand
\* the response has a null prediction and an explanatory message (the
\* classifier working).
C4_NullUnlessOneHand ==
    (Decodable /\ Len(Scene) # 1 /\ ~model.broken) =>
        /\ response.status = 200
        /\ "prediction" \in DOMAIN Body
        /\ Body.prediction = Null
        /\ "message" \in DOMAIN Body

\* C4 amended: a decodable image with no hand gets 200 with a null prediction
\* and the message "no hand detected", the classifier not being called; an
\* image with more than one hand is answered as the image of its first
\* detected hand alone is.
C4_NoHandOrFirstHand ==
    /\ (Decodable /\ Scene = <<>>) =>
          /\ response = [status |-> 200,
                         body |-> [prediction |-> Null,
                                   message |-> [text |-> "no hand detected"]]]
          /\ \A k \in 1..Len(calls) : calls[k] # "model.predict_proba"
    /\ (Decodable /\ Len(Scene) > 1) =>
          \E alone \in {predict([frame |-> [format |-> "jpeg", content |-> <<Scene[1]>>]],
                                model, hands_startup, argsort_ties)} :
              response = [status |-> alone.status, body |-> alone.body]

\* C4 witness: two hands in the image, and the first one's label is returned.
C4_Witness ==
    /\ Decodable
    /\ Len(Scene) > 1
    /\ response.status = 200
    /\ "prediction" \in DOMAIN Body
    /\ Body.prediction # Null
    /\ Body.confidence = Scores[np_argmax(Scores)]

\* C5: in every response with a non-null prediction the first entry of
\* top_predictions carries the label of 'prediction' and the confidence of
\* 'confidence', ties for the highest probability included.
C5_FirstIsPrediction ==
    (Classified /\ Body.prediction # Null) =>
        /\ Body.top_predictions[1].label = Body.prediction
        /\ Body.top_predictions[1].confidence = Body.confidence

\* C6: for any detected hand the serving-time feature vector has 42 values in
\* the column order x0,y0,...,x20,y20, column x_i / y_i holding landmark i's
\* x / y: the columns and the assignment of the dataset builder's header and
\* rows without the trailing label column.
C6_FeatureLayout ==
    HandDetected =>
        /\ landmarks # None
        /\ Len(landmarks.values) = 42
        /\ Len(landmarks.columns) = 42
        /\ \A i \in 0..20 :
              /\ landmarks.columns[2 * i + 1] = <<"x", i>>
              /\ landmarks.columns[2 * i + 2] = <<"y", i>>
              /\ landmarks.values[2 * i + 1] = HandLandmarks(Scene[1])[i + 1].x
              /\ landmarks.values[2 * i + 2] = HandLandmarks(Scene[1])[i + 1].y
        /\ landmarks.columns = SubSeq(header, 1, Len(header) - 1)
        /\ \A file \in {request.files.frame} :
              \A rows \in {image_rows(b_hands_startup, file, "A")} :
                  /\ Len(rows) = 1
                  /\ landmarks.values = SubSeq(rows[1], 1, Len(rows[1]) - 1)

\* C6 witness: a frame with a hand whose x and y differ at some landmark has
\* been encoded.
C6_Witness ==
    /\ HandDetected
    /\ landmarks # None
    /\ \E i \in 1..NumLandmarks :
          HandLandmarks(Scene[1])[i].x # HandLandmarks(Scene[1])[i].y

C8_Independent ==
    first # None =>
        /\ model = first.model
        /\ hands = first.hands
        /\ (IsPredict /\ request.files = first.request.files) => response = first.response

\* C8 witness: the first request failed with 500 and a later, different
\* request was answered 200.
C8_Witness ==
    /\ first # None
    /\ IsPredict
    /\ first.response.status = 500
    /\ request # first.request
    /\ response.status = 200

-----------------------------------------------------------------------------
(* Claim about the dataset builder, checked under SpecBuilder *)

\* the rows a label directory yields: one per readable file with a hand
RowsOfDirectory(entry) ==
    LET good == SelectSeq(entry.files,
                          LAMBDA f : f.format # "junk" /\ f.content # <<>>)
    IN  [k \in 1..Len(good) |-> FeaturesOf(good[k].content[1]) \o <<entry.name>>]

RECURSIVE RowsOfListing(_)
RowsOfListing(entries) ==
    IF entries = <<>> THEN <<>>
    ELSE (IF Head(entries).isdir THEN RowsOfDirectory(Head(entries)) ELSE <<>>)
         \o RowsOfListing(Tail(entries))

HeaderRow ==
    [j \in 1..(2 * NumLandmarks + 1) |->
        IF j = 2 * NumLandmarks + 1 THEN <<"label">>
        ELSE IF j % 2 = 1 THEN <<"x", (j - 1) \div 2>>
        ELSE <<"y", (j - 2) \div 2>>]

\* C9: when the builder has finished, the CSV is the header row followed by
\* exactly one row per image that was readable and had a hand detected, each
\* with 42 feature values and the name of its directory as label; unreadable
\* images, images without a hand and top-level non-directories give no row
\* and do not stop the run.
C9_OneRowPerDetectedHand ==
    /\ b_pc = "done" =>
          /\ csv = <<HeaderRow>> \o RowsOfListing(listing)
          /\ \A k \in 2..Len(csv) : Len(csv[k]) = 43
    /\ (b_pc \in {"labels", "images"} /\ b_label > 0) => b_hands # None

\* C9 witness: a finished run over a plain file, an unreadable image, an image
\* without a hand and images with hands under two labels.
C9_Witness ==
    /\ b_pc = "done"
    /\ \E k \in 1..Len(listing) : ~listing[k].isdir
    /\ \E k \in 1..Len(listing) : \E f \in 1..Len(listing[k].files) :
          listing[k].files[f].format = "junk"
    /\ \E k \in 1..Len(listing) : \E f \in 1..Len(listing[k].files) :
          listing[k].files[f] = [format |-> "jpeg", content |-> <<>>]
    /\ Len(csv) = 3
    /\ csv[2][43] # csv[3][43]

-----------------------------------------------------------------------------
(* Claim about the trainer, checked under SpecTrainer *)

\* C10: the trainer drops every class with fewer than 10 samples and then
\* cross-validates with 5 folds, fewer (max(2, smallest class size)) only if a
\* class still present after the filtering has fewer than 5 samples.
C10_FoldsFromFilteredClasses ==
    t_pc \in {"validated", "saved"} =>
        LET kept == value_counts(df)
            small == {l \in DOMAIN kept : kept[l] < 5}
        IN  /\ \A l \in DOMAIN kept : kept[l] >= 10
            /\ cv_folds = IF small = {} THEN 5
                          ELSE (IF counts_min(kept) > 2 THEN counts_min(kept) ELSE 2)

====
